---------------------------- MODULE Spec2Model ----------------------------
(***************************************************************************)
(* A model of the `Matrix<M, N>` value type of src/src/matrix.rs: a dense  *)
(* row-major array `body: [[f32; N]; M]` with construction, indexed        *)
(* access, transpose, row swap and the Add / Sub / Mul operators.          *)
(*                                                                         *)
(* f32 entries are modelled by their IEEE-754 meaning on the values the    *)
(* model draws: the integer-valued finite numbers (rounded to a 24-bit     *)
(* significand, ties to even), the two infinities and NaN.  +0.0 and -0.0  *)
(* are one value, as they are for f32's `==`.                              *)
(***************************************************************************)
EXTENDS Integers, Sequences, FiniteSets, TLC

----------------------------------------------------------------------------
(* Bounds of the model                                                     *)

\* Largest row or column extent of the matrices drawn for the generic
\* operations (extents range over 0..MaxDim).
MaxDim == 2

\* Longest chain of value-returning calls applied to a previous result
\* (a.transpose().transpose(), (a + b) - b).
MaxChain == 2

----------------------------------------------------------------------------
(* f32                                                                     *)

\* Number of significand bits of f32 (f32::MANTISSA_DIGITS).
MANTISSA_DIGITS == 24

Fin(n) == [k |-> "fin", v |-> n]
NaN == [k |-> "nan", v |-> 0]
PosInf == [k |-> "inf", v |-> 1]
NegInf == [k |-> "inf", v |-> -1]

IsFinite(a) == a.k = "fin"

Abs(n) == IF n < 0 THEN -n ELSE n

Sign(n) == IF n < 0 THEN -1 ELSE IF n > 0 THEN 1 ELSE 0

\* The spacing of the f32 values around a non-negative integer magnitude a.
RECURSIVE Ulp(_)
Ulp(a) == IF a < 2 ^ MANTISSA_DIGITS THEN 1 ELSE 2 * Ulp(a \div 2)

\* Round an exact integer result to the nearest f32, ties to even.
RoundF32(n) ==
    LET a == Abs(n)
        u == Ulp(a)
        q == a \div u
        r == a % u
        up == (2 * r > u) \/ (2 * r = u /\ q % 2 = 1)
        m == (IF up THEN q + 1 ELSE q) * u
    IN  IF n < 0 THEN -m ELSE m

\* f32 `+`
fadd(a, b) ==
    IF a.k = "nan" \/ b.k = "nan" THEN NaN
    ELSE IF a.k = "inf" /\ b.k = "inf" THEN (IF a.v = b.v THEN a ELSE NaN)
    ELSE IF a.k = "inf" THEN a
    ELSE IF b.k = "inf" THEN b
    ELSE Fin(RoundF32(a.v + b.v))

\* f32 unary minus (used by `-`)
fneg(a) == IF a.k = "nan" THEN NaN ELSE [k |-> a.k, v |-> -a.v]

\* f32 `-`
fsub(a, b) == fadd(a, fneg(b))

\* f32 `*`
fmul(a, b) ==
    IF a.k = "nan" \/ b.k = "nan" THEN NaN
    ELSE IF a.k = "inf" \/ b.k = "inf"
         THEN (IF Sign(a.v) * Sign(b.v) = 0 THEN NaN
               ELSE [k |-> "inf", v |-> Sign(a.v) * Sign(b.v)])
    ELSE Fin(RoundF32(a.v * b.v))

\* f32 `==` (PartialEq): NaN is equal to nothing, itself included.
feq(a, b) == a.k # "nan" /\ b.k # "nan" /\ a = b

----------------------------------------------------------------------------
(* Matrix<M, N>                                                            *)

\* struct Matrix<const M: usize, const N: usize> { body: [[f32; N]; M] }
\* The extents are type parameters: they are kept beside the body, so that
\* a matrix of zero rows still has its column extent.
Matrix(M, N, body) == [M |-> M, N |-> N, body |-> body]

\* Values returned by the operations.
Val(tag, val) == [tag |-> tag, val |-> val]
Unit == Val("Unit", 0)
None == Val("None", 0)
Some(v) == Val("Some", v)
Panic == Val("Panic", 0)

\* Matrix::new
New(M, N, body) == Val("Matrix", Matrix(M, N, body))

\* Matrix::zeros
Zeros(M, N) == Matrix(M, N, [i \in 0 .. M - 1 |-> [j \in 0 .. N - 1 |-> Fin(0)]])

\* Matrix::fill
Fill(M, N, n) == Matrix(M, N, [i \in 0 .. M - 1 |-> [j \in 0 .. N - 1 |-> n]])

\* Matrix::size
Size(self) == <<self.M, self.N>>

\* Get with the bounds test off by one: the last row and column are absent.
Get_OffByOne(self, pos) ==
    IF pos[1] + 1 < self.M /\ pos[2] + 1 < self.N
    THEN Val("Some", self.body[pos[1]][pos[2]])
    ELSE Val("None", 0)

\* Matrix::get
Get(self, pos) ==
    IF pos[1] < self.M /\ pos[2] < self.N
    THEN Some(self.body[pos[1]][pos[2]])
    ELSE None

\* Option::unwrap of the entries read by transpose: a None makes it panic.
UnwrapPanics(self, rows, cols) ==
    \E r \in 0 .. rows - 1, c \in 0 .. cols - 1 : Get(self, <<r, c>>).tag = "None"

\* Transpose that never writes the last entry: it keeps the 0.0 of
\* `let mut body = [[0.0; M]; N]`.
Transpose_SkipLast(self) ==
    Val("Matrix",
        Matrix(self.N, self.M,
               [c \in 0 .. self.N - 1 |->
                   [r \in 0 .. self.M - 1 |->
                       IF c = self.N - 1 /\ r = self.M - 1 THEN Fin(0)
                       ELSE self.body[r][c]]]))

\* Matrix::transpose: body[c][r] = self.get((r, c)).unwrap()
Transpose(self) ==
    IF UnwrapPanics(self, self.M, self.N) THEN Panic
    ELSE Val("Matrix",
             Matrix(self.N, self.M,
                    [c \in 0 .. self.N - 1 |->
                        [r \in 0 .. self.M - 1 |-> Get(self, <<r, c>>).val]]))

\* swap_rows that overwrites row idx_1 and forgets to store it in row idx_2.
SwapRows_Overwrite(self, idx_1, idx_2) ==
    IF idx_1 >= self.M \/ idx_2 >= self.M THEN Val("Panic", 0)
    ELSE Val("Matrix",
             Matrix(self.M, self.N,
                    [i \in 0 .. self.M - 1 |->
                        IF i = idx_1 THEN self.body[idx_2] ELSE self.body[i]]))

\* Matrix::swap_rows: <[T]>::swap panics when an index is out of bounds.
SwapRows(self, idx_1, idx_2) ==
    IF idx_1 >= self.M \/ idx_2 >= self.M THEN Panic
    ELSE Val("Matrix",
             Matrix(self.M, self.N,
                    [i \in 0 .. self.M - 1 |->
                        IF i = idx_1 THEN self.body[idx_2]
                        ELSE IF i = idx_2 THEN self.body[idx_1]
                        ELSE self.body[i]]))

\* `s $op o` with the macro's operator token $op.
ApplyOp(op, s, o) == IF op = "+" THEN fadd(s, o) ELSE fsub(s, o)

\* impl_ops!: the entrywise combination of two matrices of equal extents.
ImplOps(op, self, other) ==
    Matrix(self.M, self.N,
           [i \in 0 .. self.M - 1 |->
               [j \in 0 .. self.N - 1 |->
                   ApplyOp(op, self.body[i][j], other.body[i][j])]])

\* impl_ops!(Add, add, +)
Add(self, other) == ImplOps("+", self, other)

\* Sub that adds: the macro instantiated with the wrong operator token.
Sub_WrongToken(self, other) == ImplOps("+", self, other)

\* impl_ops!(Sub, sub, -)
Sub(self, other) == ImplOps("-", self, other)

\* The fold that skips the first pair (an off-by-one start).
RECURSIVE Fold_SkipFirst(_, _, _)
Fold_SkipFirst(rs, ro, n) ==
    IF n <= 1 THEN Fin(0)
    ELSE fadd(Fold_SkipFirst(rs, ro, n - 1), fmul(rs[n - 1], ro[n - 1]))

\* rs.iter().zip(ro).fold(0.0, |acc, (s, o)| acc + s * o) over the first n pairs
RECURSIVE Fold(_, _, _)
Fold(rs, ro, n) ==
    IF n = 0 THEN Fin(0)
    ELSE fadd(Fold(rs, ro, n - 1), fmul(rs[n - 1], ro[n - 1]))

\* Mul that forgets to transpose the right operand and pairs row i of the
\* left operand with row j of the right one.
Mul_NoTranspose(self, other) ==
    Val("Matrix",
        Matrix(self.M, other.N,
               [i \in 0 .. self.M - 1 |->
                   [j \in 0 .. other.N - 1 |->
                       IF j < other.M /\ self.N <= other.N
                       THEN Fold(self.body[i], other.body[j], self.N)
                       ELSE Fin(0)]]))

\* impl ops::Mul<Matrix<L, N>> for Matrix<M, L>
Mul(self, other) ==
    LET other_t == Transpose(other)
    IN  IF other_t.tag = "Panic" THEN Panic
        ELSE Val("Matrix",
                 Matrix(self.M, other.N,
                        [i \in 0 .. self.M - 1 |->
                            [j \in 0 .. other.N - 1 |->
                                Fold(self.body[i], other_t.val.body[j], self.N)]]))

\* #[derive(PartialEq)]: entrywise f32 `==` (the extents agree by typing).
MatrixEq(a, b) ==
    /\ a.M = b.M /\ a.N = b.N
    /\ \A i \in 0 .. a.M - 1 : \A j \in 0 .. a.N - 1 : feq(a.body[i][j], b.body[i][j])

\* An array literal of integer-valued entries, [[a, b], [c, d]], as a body.
Literal(rows) ==
    Matrix(Len(rows), Len(rows[1]),
           [i \in 0 .. Len(rows) - 1 |->
               [j \in 0 .. Len(rows[1]) - 1 |-> Fin(rows[i + 1][j + 1])]])

\* pub const I_2
I_2 == Literal(<< <<1, 0>>,
                  <<0, 1>> >>)

\* pub const I_3
I_3 == Literal(<< <<1, 0, 0>>,
                  <<0, 1, 0>>,
                  <<0, 0, 1>> >>)

\* pub const I_4
I_4 == Literal(<< <<1, 0, 0, 0>>,
                  <<0, 1, 0, 0>>,
                  <<0, 0, 1, 0>>,
                  <<0, 0, 0, 1>> >>)

\* R90_2 with the signs of the clockwise rotation.
R90_2_Clockwise == Literal(<< << 0, 1>>,
                              <<-1, 0>> >>)

\* pub const R90_2
R90_2 == Literal(<< <<0, -1>>,
                    <<1,  0>> >>)

\* pub const R180_2
R180_2 == Literal(<< <<-1,  0>>,
                     << 0, -1>> >>)

\* pub const R270_2
R270_2 == Literal(<< << 0, 1>>,
                     <<-1, 0>> >>)

----------------------------------------------------------------------------
(* Inputs                                                                  *)

Extents == 0 .. MaxDim

\* Indices handed to get and swap_rows: every valid one and two beyond.
Indices == 0 .. MaxDim + 1

Positions(M, N) == (0 .. M - 1) \X (0 .. N - 1)

\* The M x N matrices that are bg everywhere except v at one position.
OneProbe(M, N, Bgs, Vs) ==
    { Fill(M, N, bg) : bg \in Bgs }
    \cup { Matrix(M, N, [i \in 0 .. M - 1 |->
                            [j \in 0 .. N - 1 |-> IF <<i, j>> = p THEN v ELSE bg]]) :
             p \in Positions(M, N), v \in Vs, bg \in Bgs }

\* The M x N matrix of pairwise distinct entries base, base + 1, ...
Ramp(M, N, base) ==
    Matrix(M, N, [i \in 0 .. M - 1 |-> [j \in 0 .. N - 1 |-> Fin(base + i * N + j)]])

\* The M x N matrix of distinct entries with v at one position.
RampProbe(M, N, Vs) ==
    { Matrix(M, N, [i \in 0 .. M - 1 |->
                       [j \in 0 .. N - 1 |->
                           IF <<i, j>> = p THEN v ELSE Fin(1 + i * N + j)]]) :
        p \in Positions(M, N), v \in Vs }

Specials == {NaN, PosInf, NegInf}

\* Matrices handed to Matrix::new under Spec.
NewInputs(M, N) ==
    OneProbe(M, N, {Fin(0)}, {Fin(-2)} \cup Specials)
    \cup {Ramp(M, N, 1)} \cup RampProbe(M, N, Specials)

----------------------------------------------------------------------------
(* State                                                                   *)

VARIABLES
    self,       \* the receiver (`self`, or the left operand)
    other,      \* the right operand of a binary operator
    ret,        \* the value the last call returned
    saved,      \* the first product of an assert_eq!(a * b, b * a)
    call,       \* the last call: its name, arguments, receiver before it
    panicked,   \* the thread has panicked
    oob         \* what get and swap_rows did on an out-of-range index so far

vars == <<self, other, ret, saved, call, panicked, oob>>

NoMatrix == Matrix(0, 0, << >>)

\* A call record. recv is "self" or "ret" (a call chained on the last result),
\* depth the length of that chain, pre the receiver before the call.
Call(op, recv, depth, args, pre) ==
    [op |-> op, recv |-> recv, depth |-> depth, args |-> args, pre |-> pre]

Constructed == call.op # "start" /\ ~panicked

Init ==
    /\ self = NoMatrix
    /\ other = NoMatrix
    /\ ret = Unit
    /\ saved = Unit
    /\ call = Call("start", "self", 0, << >>, NoMatrix)
    /\ panicked = FALSE
    /\ oob = [get |-> "unseen", swap_rows |-> "unseen"]

\* let mut self = Matrix::<M, N>::new(body);
NewOp(M, N, body) ==
    /\ call.op = "start"
    /\ ret' = New(M, N, body)
    /\ self' = ret'.val
    /\ call' = Call("new", "self", 1, <<M, N, body>>, self)
    /\ UNCHANGED <<other, saved, panicked, oob>>

\* let mut self = Matrix::<M, N>::zeros();
ZerosOp(M, N) ==
    /\ call.op = "start"
    /\ ret' = Val("Matrix", Zeros(M, N))
    /\ self' = ret'.val
    /\ call' = Call("zeros", "self", 1, <<M, N>>, self)
    /\ UNCHANGED <<other, saved, panicked, oob>>

\* let mut self = Matrix::<M, N>::fill(n);
FillOp(M, N, n) ==
    /\ call.op = "start"
    /\ ret' = Val("Matrix", Fill(M, N, n))
    /\ self' = ret'.val
    /\ call' = Call("fill", "self", 1, <<M, N, n>>, self)
    /\ UNCHANGED <<other, saved, panicked, oob>>

\* self.size()
SizeOp ==
    /\ Constructed
    /\ ret' = Val("Size", Size(self))
    /\ call' = Call("size", "self", 1, << >>, self)
    /\ UNCHANGED <<self, other, saved, panicked, oob>>

\* self.get((r, c))
GetOp(r, c) ==
    /\ Constructed
    /\ ret' = Get(self, <<r, c>>)
    /\ call' = Call("get", "self", 1, <<r, c>>, self)
    /\ oob' = IF r < self.M /\ c < self.N THEN oob
              ELSE [oob EXCEPT !.get = ret'.tag]
    /\ UNCHANGED <<self, other, saved, panicked>>

\* self.transpose(), or .transpose() chained on the result of the last one
TransposeOp(recv) ==
    /\ Constructed
    /\ \/ recv = "self"
       \/ recv = "ret" /\ call.op = "transpose" /\ call.depth < MaxChain
    /\ LET rcv == IF recv = "self" THEN self ELSE ret.val
       IN  /\ ret' = Transpose(rcv)
           /\ call' = Call("transpose", recv,
                           IF recv = "self" THEN 1 ELSE call.depth + 1, << >>, rcv)
    /\ panicked' = (ret'.tag = "Panic")
    /\ UNCHANGED <<self, other, saved, oob>>

\* self.swap_rows(idx_1, idx_2)
SwapRowsOp(idx_1, idx_2) ==
    /\ Constructed
    /\ LET r == SwapRows(self, idx_1, idx_2)
       IN  IF r.tag = "Panic"
           THEN /\ panicked' = TRUE
                /\ ret' = Panic
                /\ self' = self
                /\ oob' = [oob EXCEPT !.swap_rows = "Panic"]
           ELSE /\ panicked' = FALSE
                /\ ret' = Unit
                /\ self' = r.val
                /\ oob' = oob
    /\ call' = Call("swap_rows", "self", 1, <<idx_1, idx_2>>, self)
    /\ UNCHANGED <<other, saved>>

Next ==
    \/ \E M \in Extents, N \in Extents :
          \E m \in NewInputs(M, N) : NewOp(M, N, m.body)
    \/ \E M \in Extents, N \in Extents : ZerosOp(M, N)
    \/ \E M \in Extents, N \in Extents : \E n \in {Fin(3), NaN} : FillOp(M, N, n)
    \/ SizeOp
    \/ \E r \in Indices, c \in Indices : GetOp(r, c)
    \/ \E recv \in {"self", "ret"} : TransposeOp(recv)
    \/ \E i \in Indices, j \in Indices : SwapRowsOp(i, j)

Spec == Init /\ [][Next]_vars

----------------------------------------------------------------------------
(* Claims checked under Spec                                               *)

\* C2: Matrix::new with a zero row-count or a zero column-count fails with
\* EmptyDimension, and with both extents >= 1 it succeeds with a matrix
\* whose entry at every position is the initializer's entry there.
C2_NewValidatesExtents ==
    call.op = "new" =>
        IF call.args[1] = 0 \/ call.args[2] = 0
        THEN ret.tag = "EmptyDimension"
        ELSE /\ ret.tag = "Matrix"
             /\ ret.val.M = call.args[1] /\ ret.val.N = call.args[2]
             /\ \A p \in Positions(call.args[1], call.args[2]) :
                   ret.val.body[p[1]][p[2]] = call.args[3][p[1]][p[2]]

\* C6: A.transpose() has extents Cols x Rows with entry (c, r) the entry
\* (r, c) of A, it leaves A unmodified, and A.transpose().transpose() has
\* the extents of A and the same entry at every position.
C6_TransposeInvolution ==
    call.op = "transpose" =>
        /\ ~panicked
        /\ ret.tag = "Matrix"
        /\ ret.val.M = call.pre.N /\ ret.val.N = call.pre.M
        /\ \A p \in Positions(call.pre.M, call.pre.N) :
              ret.val.body[p[2]][p[1]] = call.pre.body[p[1]][p[2]]
        /\ call.recv = "self" => self = call.pre
        /\ call.depth = 2 => ret.val = self

C6_Witness ==
    /\ call.op = "transpose" /\ call.depth = 2
    /\ self.M = 1 /\ self.N = 2
    /\ self.body[0][0] = Fin(1) /\ self.body[0][1] = NaN
    /\ ret.val = self

\* C8: get((r, c)) returns the entry at row r, column c when r < M and
\* c < N and None for every other index pair; it never panics and never
\* modifies the matrix.
C8_GetChecked ==
    call.op = "get" =>
        /\ ~panicked
        /\ self = call.pre
        /\ IF call.args[1] < self.M /\ call.args[2] < self.N
           THEN ret.tag = "Some" /\ ret.val = self.body[call.args[1]][call.args[2]]
           ELSE ret.tag = "None"

C8_Witness ==
    /\ call.op = "get" /\ call.args = <<1, 2>>
    /\ self = Ramp(2, 2, 1)
    /\ ret.tag = "None"

\* The state after a swap_rows(i, j) with both indices in range.
C9_Swapped ==
    (call.op = "swap_rows" /\ call.args[1] < call.pre.M /\ call.args[2] < call.pre.M) =>
        /\ ~panicked
        /\ self.M = call.pre.M /\ self.N = call.pre.N
        /\ self.body[call.args[1]] = call.pre.body[call.args[2]]
        /\ self.body[call.args[2]] = call.pre.body[call.args[1]]
        /\ \A i \in 0 .. self.M - 1 :
              i \notin {call.args[1], call.args[2]} => self.body[i] = call.pre.body[i]
        /\ call.args[1] = call.args[2] => self = call.pre

\* A second swap_rows(i, j) right after a swap_rows(i, j).
C9_SwapAgain ==
    (/\ call.op = "swap_rows" /\ ~panicked
     /\ SwapRowsOp(call.args[1], call.args[2])) => self' = call.pre

C10_OnePolicy ==
    (oob.get # "unseen" /\ oob.swap_rows # "unseen") =>
        (oob.get = "Panic") <=> (oob.swap_rows = "Panic")

----------------------------------------------------------------------------
(* SpecArith: the entrywise Add and Sub of two matrices of equal extents    *)

\* The first integer that f32 cannot tell from its successor.
Big == 2 ^ MANTISSA_DIGITS

\* Finite entries on both sides of the rounding boundary.
ArithVals == {Fin(0), Fin(1), Fin(-3), Fin(5), Fin(Big), Fin(-Big)}

ArithInit ==
    /\ \E M \in Extents, N \in Extents :
          /\ self \in OneProbe(M, N, {Fin(1)}, ArithVals)
          /\ other \in OneProbe(M, N, {Fin(2)}, ArithVals)
    /\ ret = Unit
    /\ saved = Unit
    /\ call = Call("operands", "self", 0, << >>, NoMatrix)
    /\ panicked = FALSE
    /\ oob = [get |-> "unseen", swap_rows |-> "unseen"]

\* The receiver of a call on `self` or chained on the last result, when the
\* chain may grow.
Chainable(recv) ==
    \/ recv = "self"
    \/ recv = "ret" /\ call.op \in {"add", "sub"} /\ call.depth < MaxChain

\* self + other, or (the last result) + other; call.args lists the chain.
AddOp(recv) ==
    /\ ~panicked
    /\ Chainable(recv)
    /\ LET rcv == IF recv = "self" THEN self ELSE ret.val
       IN  /\ ret' = Val("Matrix", Add(rcv, other))
           /\ call' = IF recv = "self"
                      THEN Call("add", recv, 1, <<"add">>, rcv)
                      ELSE Call("add", recv, call.depth + 1,
                                Append(call.args, "add"), rcv)
    /\ UNCHANGED <<self, other, saved, panicked, oob>>

\* self - other, or (the last result) - other
SubOp(recv) ==
    /\ ~panicked
    /\ Chainable(recv)
    /\ LET rcv == IF recv = "self" THEN self ELSE ret.val
       IN  /\ ret' = Val("Matrix", Sub(rcv, other))
           /\ call' = IF recv = "self"
                      THEN Call("sub", recv, 1, <<"sub">>, rcv)
                      ELSE Call("sub", recv, call.depth + 1,
                                Append(call.args, "sub"), rcv)
    /\ UNCHANGED <<self, other, saved, panicked, oob>>

ArithNext ==
    \/ \E recv \in {"self", "ret"} : AddOp(recv)
    \/ \E recv \in {"self", "ret"} : SubOp(recv)

SpecArith == ArithInit /\ [][ArithNext]_vars

\* Every entrywise sum self[i][j] + other[i][j] is a finite f32 computed
\* without rounding.
SumsExact ==
    \A p \in Positions(self.M, self.N) :
        LET a == self.body[p[1]][p[2]]
            b == other.body[p[1]][p[2]]
        IN  IsFinite(a) /\ IsFinite(b) /\ fadd(a, b) = Fin(a.v + b.v)

\* C7 as stated: for all matrices A and B of equal extents, (A + B) - B == A.
C7_AddSubInverse ==
    call.args = <<"add", "sub">> => MatrixEq(ret.val, self)

\* C7 as amended: for all matrices A and B of equal extents whose entrywise
\* sums A[i][j] + B[i][j] are all finite and computed without rounding,
\* (A + B) - B == A.
C7_AddSubInverseExact ==
    (call.args = <<"add", "sub">> /\ SumsExact) => MatrixEq(ret.val, self)

C7_Witness ==
    /\ call.args = <<"add", "sub">> /\ SumsExact
    /\ self.M = 2 /\ self.N = 2
    /\ self.body[1][0] = Fin(-3) /\ other.body[1][0] = Fin(Big)
    /\ MatrixEq(ret.val, self)

----------------------------------------------------------------------------
(* SpecMul: the matrix product, of drawn operands and with the constants    *)

MulLeftVals == {Fin(0), Fin(-2), Fin(Big)} \cup Specials

MulRightVals == {Fin(0), Fin(1), Fin(3), NaN, PosInf}

\* The j-th standard basis column vector of n rows.
Basis(n, j) == Matrix(n, 1, [i \in 0 .. n - 1 |-> [c \in {0} |-> IF i = j THEN Fin(1) ELSE Fin(0)]])

\* Operand pairs of the unit tests and of main.
TestPairs ==
    { <<Ramp(2, 2, 1), Ramp(2, 2, 1)>>,
      <<Literal(<< <<1, 4, 6>> >>), Literal(<< <<2, 3>>, <<5, 8>>, <<7, 9>> >>)>>,
      <<Ramp(2, 2, 1), Basis(2, 1)>>,
      <<Ramp(3, 3, 1), Basis(3, 2)>> }

\* Square matrices multiplied with the identity of their order.
Squares(n) ==
    OneProbe(n, n, {Fin(2)}, {Fin(0), Fin(-1), Fin(Big)} \cup Specials)
    \cup {Ramp(n, n, 1)}

Identity(n) == IF n = 2 THEN I_2 ELSE IF n = 3 THEN I_3 ELSE I_4

Orders == {2, 3, 4}

Rotations == {R90_2, R180_2, R270_2}

RotVals == {Fin(0), Fin(1), Fin(2), Fin(-5), Fin(Big)} \cup Specials

Column(x, y) == Matrix(2, 1, [i \in 0 .. 1 |-> [c \in {0} |-> IF i = 0 THEN x ELSE y]])

MulOperands ==
    \/ \E M \in Extents, L \in Extents, N \in Extents :
          /\ self \in OneProbe(M, L, {Fin(1)}, MulLeftVals)
          /\ other \in OneProbe(L, N, {Fin(0), Fin(1)}, MulRightVals)
    \/ \E pair \in TestPairs : self = pair[1] /\ other = pair[2]
    \/ \E n \in Orders : self \in Squares(n) /\ other = Identity(n)
    \/ \E x \in RotVals, y \in RotVals : self \in Rotations /\ other = Column(x, y)
    \/ \E n \in Orders, m \in Extents :
          \E j \in 0 .. n - 1 :
              /\ self \in Squares(n) \cup RampProbe(m, n, Specials) \cup {Ramp(m, n, 1)}
              /\ other = Basis(n, j)

MulInit ==
    /\ MulOperands
    /\ ret = Unit
    /\ saved = Unit
    /\ call = Call("operands", "self", 0, << >>, NoMatrix)
    /\ panicked = FALSE
    /\ oob = [get |-> "unseen", swap_rows |-> "unseen"]

\* self * other
MulOp ==
    /\ call.op = "operands"
    /\ ret' = Mul(self, other)
    /\ panicked' = (ret'.tag = "Panic")
    /\ call' = Call("mul", "self", 1, <<"self * other">>, self)
    /\ UNCHANGED <<self, other, saved, oob>>

\* assert_eq!(self * other, other * self): the second product, the first kept
MulRevOp ==
    /\ ~panicked
    /\ call.op = "mul" /\ call.depth = 1
    /\ other.M = self.N /\ other.N = self.M
    /\ saved' = ret
    /\ ret' = Mul(other, self)
    /\ panicked' = (ret'.tag = "Panic")
    /\ call' = Call("mul", "other", 2, <<"self * other", "other * self">>, other)
    /\ UNCHANGED <<self, other, oob>>

MulNext == MulOp \/ MulRevOp

SpecMul == MulInit /\ [][MulNext]_vars

AllFinite(m) == \A p \in Positions(m.M, m.N) : IsFinite(m.body[p[1]][p[2]])

\* Entries small enough that no product or partial sum of a row by a column
\* is rounded.
SmallInts(m) ==
    \A p \in Positions(m.M, m.N) :
        IsFinite(m.body[p[1]][p[2]]) /\ Abs(m.body[p[1]][p[2]].v) < 1000

\* The f32 sum over k < n of A[i][k] * B[k][j], from 0.0 in index order.
RECURSIVE DotSum(_, _, _, _, _)
DotSum(A, B, i, j, n) ==
    IF n = 0 THEN Fin(0)
    ELSE fadd(DotSum(A, B, i, j, n - 1), fmul(A.body[i][n - 1], B.body[n - 1][j]))

\* The same sum in the integers.
RECURSIVE IntSum(_, _, _, _, _)
IntSum(A, B, i, j, n) ==
    IF n = 0 THEN 0
    ELSE IntSum(A, B, i, j, n - 1) + A.body[i][n - 1].v * B.body[n - 1][j].v

\* C1: for A of extents M x L and B of extents L x N, A * B has extents
\* M x N and its entry (i, j) is the sum over k < L of A[i][k] * B[k][j]
\* (the f32 sum, and the integer sum where nothing is rounded), although it
\* is computed through the transposed right operand;
\* [[1,2],[3,4]] * [[1,2],[3,4]] == [[7,10],[15,22]].
C1_MulIsDotProduct ==
    (call.op = "mul" /\ call.depth = 1) =>
        /\ ret.tag = "Matrix"
        /\ ret.val.M = self.M /\ ret.val.N = other.N
        /\ \A p \in Positions(self.M, other.N) :
              /\ ret.val.body[p[1]][p[2]] = DotSum(self, other, p[1], p[2], self.N)
              /\ (SmallInts(self) /\ SmallInts(other)) =>
                    ret.val.body[p[1]][p[2]] = Fin(IntSum(self, other, p[1], p[2], self.N))
        /\ (self = Ramp(2, 2, 1) /\ other = Ramp(2, 2, 1)) =>
              MatrixEq(ret.val, Literal(<< <<7, 10>>, <<15, 22>> >>))

C1_Witness ==
    /\ call.op = "mul" /\ call.depth = 1
    /\ self = Literal(<< <<1, 2>>, <<3, 4>> >>)
    /\ other = Literal(<< <<1, 2>>, <<3, 4>> >>)
    /\ ret.val = Literal(<< <<7, 10>>, <<15, 22>> >>)

\* Both products of a square matrix and the identity of its order are there.
IdentityProducts ==
    /\ call.op = "mul" /\ call.depth = 2
    /\ self.M = self.N /\ self.M \in Orders
    /\ other = Identity(self.M)

\* C3 as stated: for every square matrix A of order n in {2,3,4},
\* A * I_n == I_n * A and A * I_n == A.
C3_IdentityLaw ==
    IdentityProducts => (saved.val = ret.val /\ saved.val = self)

\* C3 as amended: for every square matrix A of order n in {2,3,4} whose
\* entries are all finite, A * I_n == I_n * A and A * I_n == A.
C3_IdentityLawFinite ==
    (IdentityProducts /\ AllFinite(self)) =>
        (MatrixEq(saved.val, ret.val) /\ MatrixEq(saved.val, self))

C3_Witness ==
    /\ IdentityProducts /\ AllFinite(self)
    /\ self.M = 4 /\ self.body[3][0] = Fin(Big)
    /\ MatrixEq(saved.val, ret.val) /\ MatrixEq(saved.val, self)

\* The rotation R has been applied to the column vector other = [x, y].
Rotated(R) ==
    /\ call.op = "mul" /\ call.depth = 1
    /\ self = R /\ other.M = 2 /\ other.N = 1

\* C4 as stated: for every column vector [x, y], R90_2 * [x, y] == [-y, x],
\* R180_2 * [x, y] == [-x, -y] and R270_2 * [x, y] == [y, -x].
C4_RotationLaws ==
    LET x == other.body[0][0]
        y == other.body[1][0]
    IN  /\ Rotated(R90_2) => ret.val = Column(fneg(y), x)
        /\ Rotated(R180_2) => ret.val = Column(fneg(x), fneg(y))
        /\ Rotated(R270_2) => ret.val = Column(y, fneg(x))

\* C4 as amended: the same three laws for every column vector [x, y] of
\* finite x and y.
C4_RotationLawsFinite ==
    LET x == other.body[0][0]
        y == other.body[1][0]
    IN  /\ (Rotated(R90_2) /\ AllFinite(other)) =>
              MatrixEq(ret.val, Column(fneg(y), x))
        /\ (Rotated(R180_2) /\ AllFinite(other)) =>
              MatrixEq(ret.val, Column(fneg(x), fneg(y)))
        /\ (Rotated(R270_2) /\ AllFinite(other)) =>
              MatrixEq(ret.val, Column(y, fneg(x)))

C4_Witness ==
    /\ Rotated(R90_2)
    /\ other = Column(Fin(1), Fin(2))
    /\ ret.val = Column(Fin(-2), Fin(1))

\* The right operand is the j-th standard basis column vector.
IsBasis(v, j) == v.N = 1 /\ j < v.M /\ v = Basis(v.M, j)

\* C5 as stated: for every m x n matrix A and j < n, A times the j-th
\* standard basis column vector is the m x 1 column vector whose row i
\* equals A[i][j].
C5_BasisColumn ==
    \A j \in 0 .. self.N - 1 :
        (call.op = "mul" /\ call.depth = 1 /\ IsBasis(other, j)) =>
            /\ ret.val.M = self.M /\ ret.val.N = 1
            /\ \A i \in 0 .. self.M - 1 : ret.val.body[i][0] = self.body[i][j]

\* C5 as amended: the same for every m x n matrix A whose entries are all
\* finite.
C5_BasisColumnFinite ==
    \A j \in 0 .. self.N - 1 :
        (call.op = "mul" /\ call.depth = 1 /\ IsBasis(other, j) /\ AllFinite(self)) =>
            /\ ret.val.M = self.M /\ ret.val.N = 1
            /\ \A i \in 0 .. self.M - 1 : feq(ret.val.body[i][0], self.body[i][j])

C5_Witness ==
    /\ call.op = "mul" /\ call.depth = 1
    /\ self = Ramp(3, 3, 1) /\ other = Basis(3, 2)
    /\ ret.val = Literal(<< <<3>>, <<6>>, <<9>> >>)

=============================================================================
